---------------------------- MODULE Spec2Model ----------------------------
(***************************************************************************)
(* A model of the data-quality sentinel for weekly retail sales extracts:  *)
(* the check library (src/src/checks.py), the per-file Analyzer and the    *)
(* batch Runner (src/src/dq_sentinel.py) and the status aggregator         *)
(* (src/scripts/build_artifacts.py).                                       *)
(*                                                                         *)
(* A table (pandas DataFrame) is a record [columns, rows]: columns is the  *)
(* header, a sequence of column names, and rows a sequence of records that *)
(* carry one field per column the checks read; a field whose column is not *)
(* in the header is never read.  Numeric cells are fixed-point integers in *)
(* halves (the cell value 13 is the number 6.5), dates are day numbers; a   *)
(* load timestamp is a day number with an hour of the day.                 *)
(* NaN is the null of pandas (NaN / NaT / None) and BAD a raw cell that    *)
(* does not parse.                                                         *)
(***************************************************************************)
EXTENDS Integers, Sequences, FiniteSets, TLC

VARIABLES
    df,              \* the table handed to a check function
    result,          \* what the check function (or the blocking policy) returned
    summary_df,      \* the summary table handed to compute_overall_status
    status,          \* what compute_overall_status returned
    data_dir_exists, \* main: data_dir.exists()
    fs,              \* the data directory: file name -> file content
    csv_files,       \* main: sorted(data_dir.glob(pattern))
    pc,              \* position of the process
    idx,             \* main: position of the for loop in csv_files
    summary_rows,    \* main: summary_rows
    any_fail,        \* main: any_fail
    out_dir,         \* the per-file artifacts written: artifact name -> report
    summary_csv,     \* the summary artifact: NoFile or the rows written
    exit_code,       \* the process exit status, NoExit while running
    analyzed,        \* the file names handed to analyze_file, in call order
    side,            \* main: promos_df and calendar_df
    last_report      \* main: r, the report the last call of analyze_file returned

vars == <<df, result, summary_df, status, data_dir_exists, fs, csv_files, pc,
          idx, summary_rows, any_fail, out_dir, summary_csv, exit_code, analyzed,
          side, last_report>>

checkVars == <<df, result>>
statusVars == <<summary_df, status>>
runnerVars == <<data_dir_exists, fs, csv_files, idx, summary_rows, any_fail,
                out_dir, summary_csv, exit_code, analyzed, side, last_report>>

-----------------------------------------------------------------------------
(* Values *)

NaN == -1000000
BAD == -1000001
NoResult == [status |-> "not_run"]

Range(s) == {s[i] : i \in DOMAIN s}

\* the sequence f with its elements computed once
Tuple(f) == f \o <<>>

Reverse(s) == [i \in 1..Len(s) |-> s[Len(s) + 1 - i]]

Rotate(s, k) == [i \in 1..Len(s) |-> s[((i - 1 + k) % Len(s)) + 1]]

Head10(s) == IF Len(s) <= 10 THEN s ELSE SubSeq(s, 1, 10)

-----------------------------------------------------------------------------
(* checks.py: the expected schema and the Normalizer *)

expected_schema_v1 ==
    <<"week_start", "sku_id", "store_id", "units", "price",
      "inventory_on_hand", "currency", "load_ts", "source_file">>

HasColumn(d, c) == c \in Range(d.columns)

\* str.strip() on the headers the model draws from
Strip(c) == IF c = "currency " THEN "currency" ELSE c

\* pd.to_numeric / pd.to_datetime with errors="coerce"
Coerce(x) == IF x = BAD THEN NaN ELSE x

NormalizeRow(d, r) ==
    [r EXCEPT
        !.units = IF "units" \in Range(d.columns) THEN Coerce(@) ELSE @,
        !.price = IF "price" \in Range(d.columns) THEN Coerce(@) ELSE @,
        !.week_start = IF "week_start" \in Range(d.columns) THEN Coerce(@) ELSE @,
        !.load_ts_parsed = IF "load_ts" \in Range(d.columns) THEN Coerce(r.load_ts) ELSE @]

normalize_df_in_place(raw) ==
    LET stripped == [columns |-> [i \in DOMAIN raw.columns |-> Strip(raw.columns[i])],
                     rows |-> raw.rows]
    IN  [columns |-> stripped.columns,
         rows |-> [i \in DOMAIN stripped.rows |-> NormalizeRow(stripped, stripped.rows[i])]]

normalize_df(raw) ==
    LET stripped == [columns |-> [i \in DOMAIN raw.columns |-> Strip(raw.columns[i])],
                     rows |-> raw.rows]
        cols == IF HasColumn(stripped, "load_ts") /\ ~HasColumn(stripped, "load_ts_parsed")
                THEN Append(stripped.columns, "load_ts_parsed")
                ELSE stripped.columns
    IN  [columns |-> cols,
         rows |-> [i \in DOMAIN stripped.rows |-> NormalizeRow(stripped, stripped.rows[i])]]

-----------------------------------------------------------------------------
(* checks.py: check_schema *)

check_schema_extra_fails(d) ==
    LET cols == d.columns
        missing == SelectSeq(expected_schema_v1, LAMBDA c : c \notin Range(cols))
        extra == SelectSeq(cols, LAMBDA c : c \notin Range(expected_schema_v1))
    IN  [missing_columns |-> missing, extra_columns |-> extra,
         schema_ok |-> (Len(missing) = 0 /\ Len(extra) = 0)]

check_schema(d) ==
    LET cols == d.columns
        missing == SelectSeq(expected_schema_v1, LAMBDA c : c \notin Range(cols))
        extra == SelectSeq(cols, LAMBDA c : c \notin Range(expected_schema_v1))
    IN  [missing_columns |-> missing, extra_columns |-> extra,
         schema_ok |-> (Len(missing) = 0)]

-----------------------------------------------------------------------------
(* Rows and raw tables the specifications draw their inputs from *)

Row(w, s, c, u, p, l, tz) ==
    [week_start |-> w, sku_id |-> s, store_id |-> c, units |-> u, price |-> p,
     load_ts |-> l, load_hour |-> 0, load_tz |-> tz, load_ts_parsed |-> NaN]

\* the same row loaded h hours after midnight of its load day
AtHour(r, h) == [r EXCEPT !.load_hour = h]

\* read_csv of a file with the 9 expected columns and the given rows
FullTable(rows) == [columns |-> expected_schema_v1, rows |-> rows]

WithoutColumns(d, drop) ==
    [d EXCEPT !.columns = SelectSeq(@, LAMBDA c : c \notin drop)]

-----------------------------------------------------------------------------
(* checks.py: check_duplicates *)

pk == <<"week_start", "sku_id", "store_id">>

SamePk(r1, r2) ==
    /\ r1.week_start = r2.week_start
    /\ r1.sku_id = r2.sku_id
    /\ r1.store_id = r2.store_id

\* df.duplicated(subset=pk, keep=False): the positions of the rows whose key
\* is also the key of another row
dup_mask(d) ==
    {i \in DOMAIN d.rows : \E j \in DOMAIN d.rows : j # i /\ SamePk(d.rows[i], d.rows[j])}

Indices(rows) == Tuple([i \in DOMAIN rows |-> i])

\* df[mask]: the rows at the masked positions, in table order
Masked(d, mask) ==
    LET kept == SelectSeq(Indices(d.rows), LAMBDA i : i \in mask)
    IN  Tuple([k \in DOMAIN kept |-> d.rows[kept[k]]])

check_duplicates_keep_first(d) ==
    IF \E c \in Range(pk) : ~HasColumn(d, c)
    THEN [status |-> "pk_column_missing", duplicate_count |-> NaN, sample |-> <<>>]
    ELSE LET mask == {i \in DOMAIN d.rows :
                         \E j \in DOMAIN d.rows : j < i /\ SamePk(d.rows[i], d.rows[j])}
         IN  [status |-> "ok", duplicate_count |-> Cardinality(mask),
              sample |-> Head10(Masked(d, mask))]

check_duplicates(d) ==
    IF \E c \in Range(pk) : ~HasColumn(d, c)
    THEN [status |-> "pk_column_missing", duplicate_count |-> NaN, sample |-> <<>>]
    ELSE LET mask == dup_mask(d)
         IN  [status |-> "ok", duplicate_count |-> Cardinality(mask),
              sample |-> Head10(Masked(d, mask))]

-----------------------------------------------------------------------------
(* Helpers for grouped and sorted computations *)

\* the ascending sequence of a finite set of integers
SortedSeq(S) ==
    Tuple([k \in 1..Cardinality(S) |->
              CHOOSE x \in S : Cardinality({y \in S : y < x}) = k - 1])

RECURSIVE SumSeq(_)
SumSeq(s) == IF Len(s) = 0 THEN 0 ELSE Head(s) + SumSeq(Tail(s))

RECURSIVE SumSq(_)
SumSq(s) == IF Len(s) = 0 THEN 0 ELSE Head(s) * Head(s) + SumSq(Tail(s))

\* Series.dropna() on a sequence of cells
DropNa(s) == SelectSeq(s, LAMBDA x : x # NaN)

Column(rows, f) == Tuple([i \in DOMAIN rows |-> rows[i][f]])

\* an exception escaping the function
Raised(e) == [status |-> "raised", error |-> e]

IsRaised(r) == "status" \in DOMAIN r /\ r.status = "raised"

\* the keys of df.groupby(["sku_id", "store_id"]): rows with a null key are
\* dropped, the groups come in ascending key order
GroupKeys(rows) ==
    LET keys == {<<rows[i].sku_id, rows[i].store_id>> : i \in
                    {j \in DOMAIN rows : rows[j].sku_id # NaN /\ rows[j].store_id # NaN}}
        code(k) == k[1] * 1000 + k[2]
        byCode == SortedSeq({code(k) : k \in keys})
    IN  Tuple([i \in DOMAIN byCode |-> CHOOSE k \in keys : code(k) = byCode[i]])

GroupRows(rows, k) ==
    SelectSeq(rows, LAMBDA r : r.sku_id = k[1] /\ r.store_id = k[2])

-----------------------------------------------------------------------------
(* checks.py: check_date_continuity *)

\* weeks.diff().dt.days.dropna() of an ascending sequence of distinct days
Diffs(weeks) == Tuple([i \in 1..(Len(weeks) - 1) |-> weeks[i + 1] - weeks[i]])

Head5(s) == IF Len(s) <= 5 THEN s ELSE SubSeq(s, 1, 5)

GroupWeeks(sub) == SortedSeq(Range(DropNa(Column(sub, "week_start"))))

BadCount(sub, freq_days) ==
    LET diffs == Diffs(GroupWeeks(sub))
    IN  Cardinality({i \in DOMAIN diffs : diffs[i] # freq_days /\ diffs[i] # 0})

GroupHasGaps_at_least(sub, freq_days, allowed_gaps) ==
    /\ Len(GroupWeeks(sub)) >= 2
    /\ BadCount(sub, freq_days) >= allowed_gaps

GroupHasGaps(sub, freq_days, allowed_gaps) ==
    /\ Len(GroupWeeks(sub)) >= 2
    /\ BadCount(sub, freq_days) > allowed_gaps

check_date_continuity(d) ==
    IF ~HasColumn(d, "week_start") THEN [status |-> "no_week_start_column"]
    ELSE IF ~HasColumn(d, "sku_id") \/ ~HasColumn(d, "store_id")
    THEN Raised("KeyError")
    ELSE LET keys == GroupKeys(d.rows)
             gappy == SelectSeq(keys, LAMBDA k : GroupHasGaps(GroupRows(d.rows, k), 7, 1))
             examples == [i \in DOMAIN gappy |->
                             [sku_id |-> gappy[i][1], store_id |-> gappy[i][2],
                              bad_diffs_sample |->
                                  Head5(Diffs(GroupWeeks(GroupRows(d.rows, gappy[i]))))]]
         IN  [status |-> "ok", groups_total |-> Len(keys),
              groups_with_gaps |-> Len(gappy), gap_examples |-> Head10(examples)]

-----------------------------------------------------------------------------
(* checks.py: detect_level_shift *)

\* the order of sort_values: ascending, nulls last
CellLess(a, b) == a # NaN /\ (b = NaN \/ a < b)

SortKeyLess(r1, r2) ==
    \/ CellLess(r1.sku_id, r2.sku_id)
    \/ /\ r1.sku_id = r2.sku_id
       /\ \/ CellLess(r1.store_id, r2.store_id)
          \/ /\ r1.store_id = r2.store_id
             /\ CellLess(r1.week_start, r2.week_start)

\* df.sort_values(["sku_id", "store_id", "week_start"]): rows with equal keys
\* keep their order in the table
sort_values(rows) ==
    LET n == Len(rows)
        before(j, i) == SortKeyLess(rows[j], rows[i])
                        \/ (~SortKeyLess(rows[i], rows[j]) /\ j < i)
        rank == Tuple([i \in 1..n |-> Cardinality({j \in 1..n : before(j, i)}) + 1])
    IN  Tuple([k \in 1..n |-> rows[CHOOSE i \in 1..n : rank[i] = k]])

window == 8

\* n * (n - 1) times the sample variance (ddof = 1) of the units
VarNumerator(units) == Len(units) * SumSq(units) - SumSeq(units) * SumSeq(units)

GroupTested(units) == Len(units) >= window * 2

\* z >= z_threshold (3.0) with z = |last_mean - first_mean| / std, squared and
\* cleared of its denominators; False when std is 0
GroupShifted(units) ==
    LET n == Len(units)
        delta == SumSeq(SubSeq(units, n - window + 1, n)) - SumSeq(SubSeq(units, 1, window))
        v == VarNumerator(units)
    IN  /\ GroupTested(units)
        /\ v # 0
        /\ delta * delta * n * (n - 1) >= 9 * window * window * v

GroupUnits(sorted, k) == DropNa(Column(GroupRows(sorted, k), "units"))

detect_level_shift(d) ==
    IF ~HasColumn(d, "units") \/ ~HasColumn(d, "week_start")
    THEN [status |-> "columns_missing"]
    ELSE IF ~HasColumn(d, "sku_id") \/ ~HasColumn(d, "store_id")
    THEN Raised("KeyError")
    ELSE LET sorted == sort_values(d.rows)
             keys == GroupKeys(sorted)
             tested == SelectSeq(keys, LAMBDA k : GroupTested(GroupUnits(sorted, k)))
             shifted == SelectSeq(keys, LAMBDA k : GroupShifted(GroupUnits(sorted, k)))
         IN  [status |-> "ok", groups_tested |-> Len(tested),
              groups_with_level_shift |-> Len(shifted),
              examples |-> Head10([i \in DOMAIN shifted |->
                              [sku_id |-> shifted[i][1], store_id |-> shifted[i][2]]])]

-----------------------------------------------------------------------------
(* checks.py: detect_unit_price_mixup *)

\* Series.median(skipna=True) times 2, NaN for a series without values
Median2(cells) ==
    LET vals == DropNa(cells)
        n == Len(vals)
        \* the values in ascending order, repeated values kept
        rank == Tuple([i \in 1..n |->
                    Cardinality({j \in 1..n : vals[j] < vals[i] \/ (vals[j] = vals[i] /\ j < i)}) + 1])
        at(k) == vals[CHOOSE i \in 1..n : rank[i] = k]
    IN  IF n = 0 THEN NaN
        ELSE IF n % 2 = 1 THEN 2 * at((n + 1) \div 2)
        ELSE at(n \div 2) + at(n \div 2 + 1)

\* m < x for a median m = m2 / 4 (cells are halves) and a threshold x = x2 / 2;
\* a comparison with NaN is False
MedianBelow(m2, x2) == m2 # NaN /\ m2 < 2 * x2

MedianAbove_or_equal(m2, x2) == m2 # NaN /\ m2 >= 2 * x2

MedianAbove(m2, x2) == m2 # NaN /\ m2 > 2 * x2

\* (price_mode % 1 == 0): the cell, in halves, is a whole number
IntegerValued(cell) == cell % 2 = 0

\* (price_mode % 1 == 0).mean() > 0.9
MostlyInteger_at_least(prices) ==
    10 * Cardinality({i \in DOMAIN prices : IntegerValued(prices[i])}) >= 9 * Len(prices)

MostlyInteger(prices) ==
    10 * Cardinality({i \in DOMAIN prices : IntegerValued(prices[i])}) > 9 * Len(prices)

detect_unit_price_mixup(d) ==
    IF ~HasColumn(d, "price") \/ ~HasColumn(d, "units")
    THEN [status |-> "columns_missing"]
    ELSE LET price_median == Median2(Column(d.rows, "price"))
             units_median == Median2(Column(d.rows, "units"))
             first == MedianBelow(price_median, 3) /\ MedianAbove(units_median, 20)
             price_mode == DropNa(Column(d.rows, "price"))
             second == /\ ~first
                       /\ Len(price_mode) > 0
                       /\ MostlyInteger(price_mode)
                       /\ MedianAbove(Median2(price_mode), 10)
                       /\ MedianBelow(units_median, 4)
         IN  [status |-> "ok", price_median |-> price_median,
              units_median |-> units_median,
              ratio_units_to_price |->
                  IF price_median = 0 \/ price_median = NaN \/ units_median = NaN
                  THEN <<>> ELSE <<units_median, price_median>>,
              suspected_unit_price_mixup |-> (first \/ second),
              hint |-> IF first THEN "median_price_small_units_large"
                       ELSE IF second THEN "price_integer_like" ELSE ""]

-----------------------------------------------------------------------------
(* checks.py: detect_partial_backfill *)

threshold_days == 30

\* (load_ts_parsed - week_start).dt.days: the whole days of the difference,
\* the hours of the load time dropped
DeltaDays(r) ==
    IF r.load_ts_parsed = NaN \/ r.week_start = NaN THEN NaN
    ELSE (24 * (r.load_ts_parsed - r.week_start) + r.load_hour) \div 24

\* pct_backfilled is the fraction <<count_backfilled, count_checked>>
PctAbove(pct, num, den) == pct[1] * den > num * pct[2]

detect_partial_backfill_all_rows(d) ==
    IF ~HasColumn(d, "week_start") \/ ~HasColumn(d, "load_ts_parsed")
    THEN [status |-> "columns_missing"]
    ELSE LET valid == DropNa([i \in DOMAIN d.rows |-> DeltaDays(d.rows[i])])
             backfilled_count == Cardinality({i \in DOMAIN valid : valid[i] > threshold_days})
             pct_backfilled == <<backfilled_count, Len(d.rows)>>
         IN  IF Len(d.rows) = 0 THEN [status |-> "no_load_ts_parsed"]
             ELSE [status |-> "ok", count_checked |-> Len(d.rows),
                   count_backfilled |-> backfilled_count,
                   pct_backfilled |-> pct_backfilled,
                   hint |-> IF PctAbove(pct_backfilled, 5, 100)
                            THEN "partial_backfill_likely" ELSE ""]

detect_partial_backfill(d) ==
    IF ~HasColumn(d, "week_start") \/ ~HasColumn(d, "load_ts_parsed")
    THEN [status |-> "columns_missing"]
    ELSE LET valid == DropNa([i \in DOMAIN d.rows |-> DeltaDays(d.rows[i])])
             backfilled_count == Cardinality({i \in DOMAIN valid : valid[i] > threshold_days})
             pct_backfilled == <<backfilled_count, Len(valid)>>
         IN  IF Len(valid) = 0 THEN [status |-> "no_load_ts_parsed"]
             ELSE [status |-> "ok", count_checked |-> Len(valid),
                   count_backfilled |-> backfilled_count,
                   pct_backfilled |-> pct_backfilled,
                   hint |-> IF PctAbove(pct_backfilled, 5, 100)
                            THEN "partial_backfill_likely" ELSE ""]

-----------------------------------------------------------------------------
(* checks.py: detect_timezone_shift *)

\* the distinct timezone tokens the pattern extracts from the load_ts strings
\* ("" where it matches nothing), in order of first appearance
TzVariants(rows) ==
    LET first == SelectSeq(Indices(rows),
                     LAMBDA i : /\ rows[i].load_tz # ""
                                /\ \A j \in 1..(i - 1) : rows[j].load_tz # rows[i].load_tz)
    IN  Tuple([k \in DOMAIN first |-> rows[first[k]].load_tz])

detect_timezone_shift_tz_only(d) ==
    IF ~HasColumn(d, "load_ts") THEN [status |-> "no_load_ts_column"]
    ELSE LET tz_variants == TzVariants(d.rows)
             dup_pk == IF \A c \in Range(pk) : HasColumn(d, c)
                       THEN Cardinality(dup_mask(d)) ELSE 0
         IN  [status |-> "ok", tz_variants |-> tz_variants,
              duplicate_pk_count |-> dup_pk,
              suspicious |-> (Len(tz_variants) > 1),
              hint |-> <<Len(tz_variants) > 1, dup_pk > 0>>]

detect_timezone_shift(d) ==
    IF ~HasColumn(d, "load_ts") THEN [status |-> "no_load_ts_column"]
    ELSE LET tz_variants == TzVariants(d.rows)
             dup_pk == IF \A c \in Range(pk) : HasColumn(d, c)
                       THEN Cardinality(dup_mask(d)) ELSE 0
         IN  [status |-> "ok", tz_variants |-> tz_variants,
              duplicate_pk_count |-> dup_pk,
              suspicious |-> (Len(tz_variants) > 1 \/ dup_pk > 0),
              hint |-> <<Len(tz_variants) > 1, dup_pk > 0>>]

-----------------------------------------------------------------------------
(* checks.py: detect_schema_versioning *)

detect_schema_versioning(d) ==
    LET missing == SelectSeq(expected_schema_v1, LAMBDA c : c \notin Range(d.columns))
        extra == SelectSeq(d.columns, LAMBDA c : c \notin Range(expected_schema_v1))
    IN  [status |-> "ok", schema_changed |-> (Len(missing) > 0 \/ Len(extra) > 0),
         missing |-> missing, extra |-> extra]

-----------------------------------------------------------------------------
(* checks.py: detect_seasonality_break and promo_calendar_diagnostics *)

\* df.groupby("week_start")["units"].sum().sort_index(): one entry per
\* non-null week, the sum skipping null units
WeeklyUnits(rows) ==
    LET weeks == SortedSeq(Range(DropNa(Column(rows, "week_start"))))
    IN  Tuple([i \in DOMAIN weeks |->
            [week_start |-> weeks[i],
             units |-> SumSeq(DropNa(Column(
                          SelectSeq(rows, LAMBDA r : r.week_start = weeks[i]), "units")))]])

\* the autocorrelations themselves are floating-point metrics that no
\* decision reads; the record keeps which of them are computed
detect_seasonality_break(d) ==
    IF ~HasColumn(d, "week_start") \/ ~HasColumn(d, "units")
    THEN [status |-> "missing_columns"]
    ELSE LET n == Len(WeeklyUnits(d.rows))
         IN  IF n < 24 THEN [status |-> "not_enough_history", n_weeks |-> n]
             ELSE [status |-> "ok", n_weeks |-> n, has_acf_lag52 |-> (n > 52)]

\* agg.pct_change().abs().fillna(0) > 0.5 at position i (i >= 2): a change
\* from 0 to a non-zero sum is infinite, from 0 to 0 is null and filled with 0
BigChange(agg, i) ==
    LET prev == agg[i - 1].units
        diff == agg[i].units - prev
        abs(x) == IF x < 0 THEN 0 - x ELSE x
    IN  IF prev = 0 THEN diff # 0 ELSE 2 * abs(diff) > abs(prev)

\* promos and calendar are None or the set of their non-null week_start days
None == {NaN}

promo_calendar_diagnostics(d, promos, calendar) ==
    IF promos = None /\ calendar = None THEN [status |-> "no_data", hints |-> <<>>]
    ELSE IF ~HasColumn(d, "week_start") \/ ~HasColumn(d, "units")
    THEN [status |-> "missing_columns", hints |-> <<>>]
    ELSE LET agg == WeeklyUnits(d.rows)
             big == {agg[i].week_start : i \in {j \in 2..Len(agg) : BigChange(agg, j)}}
             promoHit == promos # None /\ big \cap promos # {}
             calHit == calendar # None /\ big \cap calendar # {}
         IN  IF Len(agg) < 4 THEN [status |-> "not_enough_history", hints |-> <<>>]
             ELSE IF big = {} THEN [status |-> "no_big_changes", hints |-> <<>>]
             ELSE [status |-> "ok", n_big_changes |-> Cardinality(big),
                   big_change_weeks |-> SortedSeq(big),
                   hints |-> (IF promoHit THEN <<"overlap_promo">> ELSE <<>>)
                             \o (IF calHit THEN <<"overlap_calendar">> ELSE <<>>)
                             \o (IF ~promoHit /\ ~calHit THEN <<"no_match">> ELSE <<>>)]

-----------------------------------------------------------------------------
(* dq_sentinel.py: analyze_file *)

\* dict.get(key, default)
Get(rec, key, default) == IF key \in DOMAIN rec THEN rec[key] ELSE default

Tag(name, arg) == [tag |-> name, arg |-> arg]

\* round(pct_backfilled, 3) in thousandths: the nearest, a tie (which needs
\* count_checked to be a multiple of 16) going to the even one
Round3(pct) ==
    LET q == (1000 * pct[1]) \div pct[2]
        rem2 == 2 * ((1000 * pct[1]) % pct[2])
    IN  IF rem2 > pct[2] \/ (rem2 = pct[2] /\ q % 2 = 1) THEN q + 1 ELSE q

duplicate_block_threshold == 1
level_shift_groups_threshold == 1

\* DEFAULTS["partial_backfill_pct_threshold"] = 0.20, as percent
partial_backfill_pct_threshold == 20

backfill_blocks_at_least(pct) == pct[1] * 100 >= partial_backfill_pct_threshold * pct[2]

backfill_blocks(pct) == PctAbove(pct, partial_backfill_pct_threshold, 100)

blocking_reasons_of_no_mixup(r) ==
    LET dup_count == Get(r.duplicates, "duplicate_count", NaN)
        pct_backfilled == Get(r.partial_backfill, "pct_backfilled", <<>>)
        level == Get(r.level_shift, "groups_with_level_shift", 0)
    IN  (IF Len(Get(r.schema, "missing_columns", <<>>)) > 0
         THEN <<Tag("missing_schema_columns", <<>>)>> ELSE <<>>)
        \o (IF dup_count # NaN /\ dup_count >= duplicate_block_threshold
            THEN <<Tag("duplicates", <<dup_count>>)>> ELSE <<>>)
        \o (IF pct_backfilled # <<>> /\ backfill_blocks(pct_backfilled)
            THEN <<Tag("partial_backfill_pct", <<Round3(pct_backfilled)>>)>> ELSE <<>>)
        \o (IF level >= level_shift_groups_threshold
            THEN <<Tag("level_shift_groups", <<level>>)>> ELSE <<>>)
        \o (IF Get(r.tz_shift, "suspicious", FALSE)
            THEN <<Tag("timezone_anomaly_or_dup_pk", <<>>)>> ELSE <<>>)

\* lines 64-87: the reasons, in the order the conditions are tested
blocking_reasons_of(r) ==
    LET dup_count == Get(r.duplicates, "duplicate_count", NaN)
        pct_backfilled == Get(r.partial_backfill, "pct_backfilled", <<>>)
        level == Get(r.level_shift, "groups_with_level_shift", 0)
    IN  (IF Len(Get(r.schema, "missing_columns", <<>>)) > 0
         THEN <<Tag("missing_schema_columns", <<>>)>> ELSE <<>>)
        \o (IF dup_count # NaN /\ dup_count >= duplicate_block_threshold
            THEN <<Tag("duplicates", <<dup_count>>)>> ELSE <<>>)
        \o (IF pct_backfilled # <<>> /\ backfill_blocks(pct_backfilled)
            THEN <<Tag("partial_backfill_pct", <<Round3(pct_backfilled)>>)>> ELSE <<>>)
        \o (IF Get(r.unit_price_mixup, "suspected_unit_price_mixup", FALSE)
            THEN <<Tag("unit_price_mixup_suspected", <<>>)>> ELSE <<>>)
        \o (IF level >= level_shift_groups_threshold
            THEN <<Tag("level_shift_groups", <<level>>)>> ELSE <<>>)
        \o (IF Get(r.tz_shift, "suspicious", FALSE)
            THEN <<Tag("timezone_anomaly_or_dup_pk", <<>>)>> ELSE <<>>)

\* lines 87-88
apply_blocking_policy(r) ==
    LET reasons == blocking_reasons_of(r)
    IN  [file |-> r.file, schema |-> r.schema, schema_versioning |-> r.schema_versioning,
         duplicates |-> r.duplicates, continuity |-> r.continuity,
         level_shift |-> r.level_shift, unit_price_mixup |-> r.unit_price_mixup,
         partial_backfill |-> r.partial_backfill, tz_shift |-> r.tz_shift,
         seasonality |-> r.seasonality, promo_calendar |-> r.promo_calendar,
         blocking_reasons |-> reasons,
         blocking |-> IF Len(reasons) > 0 THEN "FAIL" ELSE "PASS"]

\* lines 53-62: the nine checks (check_schema and detect_schema_versioning
\* both report the schema) on the normalized table
run_checks(name, d, promos, calendar) ==
    [file |-> name,
     schema |-> check_schema(d),
     schema_versioning |-> detect_schema_versioning(d),
     duplicates |-> check_duplicates(d),
     continuity |-> check_date_continuity(d),
     level_shift |-> detect_level_shift(d),
     unit_price_mixup |-> detect_unit_price_mixup(d),
     partial_backfill |-> detect_partial_backfill(d),
     tz_shift |-> detect_timezone_shift(d),
     seasonality |-> detect_seasonality_break(d),
     promo_calendar |-> promo_calendar_diagnostics(d, promos, calendar)]

CheckNames ==
    {"schema", "schema_versioning", "duplicates", "continuity", "level_shift",
     "unit_price_mixup", "partial_backfill", "tz_shift", "seasonality", "promo_calendar"}

AnyRaised(r) == \E c \in CheckNames : IsRaised(r[c])

read_error_report(name) ==
    [file |-> name, error |-> "read_error", blocking |-> "FAIL",
     blocking_reasons |-> <<Tag("read_error", <<>>)>>]

NoReport == [file |-> NaN]

analyze_file_unguarded(name, content, promos, calendar) ==
    IF ~content.readable
    THEN [outcome |-> "raised", written |-> FALSE, report |-> NoReport]
    ELSE LET r == run_checks(name, normalize_df(content.table), promos, calendar)
         IN  IF AnyRaised(r)
             THEN [outcome |-> "raised", written |-> FALSE, report |-> NoReport]
             ELSE [outcome |-> "returned", written |-> TRUE,
                   report |-> apply_blocking_policy(r)]

\* What one call of analyze_file does: outcome "returned" with the report, or
\* "raised" when an exception leaves it; written says whether the per-file
\* JSON artifact was written (lines 90-93).  A file is [readable, table].
analyze_file(name, content, promos, calendar) ==
    IF ~content.readable
    THEN [outcome |-> "returned", written |-> FALSE, report |-> read_error_report(name)]
    ELSE LET r == run_checks(name, normalize_df(content.table), promos, calendar)
         IN  IF AnyRaised(r)
             THEN [outcome |-> "raised", written |-> FALSE, report |-> NoReport]
             ELSE [outcome |-> "returned", written |-> TRUE,
                   report |-> apply_blocking_policy(r)]

-----------------------------------------------------------------------------
(* dq_sentinel.py: main *)

NoExit == -1
NoFile == <<[file |-> NaN]>>

\* a file name is the number k of sales_weekly_<k>.csv, so that ascending
\* numbers are the lexicographic order of the names; its artifact is
\* <stem>_dq_report.json, named here by the same number
ArtifactOf(name) == name

\* str() of a Python bool or None as the summary keeps it
BoolCell(rec) ==
    IF "suspected_unit_price_mixup" \notin DOMAIN rec THEN ""
    ELSE IF rec.suspected_unit_price_mixup THEN "True" ELSE "False"

\* lines 141-151: (r.get(k) or {}).get(field)
summary_row(r) ==
    [file |-> r.file,
     blocking |-> r.blocking,
     blocking_reasons |-> r.blocking_reasons,
     duplicate_count |-> Get(Get(r, "duplicates", [status |-> "none"]), "duplicate_count", NaN),
     pct_backfilled |-> Get(Get(r, "partial_backfill", [status |-> "none"]), "pct_backfilled", <<>>),
     suspected_unit_price_mixup |-> BoolCell(Get(r, "unit_price_mixup", [status |-> "none"])),
     level_shift_groups |->
         Get(Get(r, "level_shift", [status |-> "none"]), "groups_with_level_shift", NaN)]

\* sorted(data_dir.glob(pattern))
sorted_glob(files) == SortedSeq(DOMAIN files)

\* lines 121-125
CheckDataDir ==
    /\ pc = "start"
    /\ IF ~data_dir_exists
       THEN /\ exit_code' = 2
            /\ pc' = "exited"
       ELSE /\ pc' = "glob"
            /\ UNCHANGED exit_code
    /\ UNCHANGED <<data_dir_exists, fs, csv_files, idx, summary_rows, any_fail,
                   out_dir, summary_csv, analyzed, side, last_report>>
    /\ UNCHANGED <<checkVars, statusVars>>

\* lines 130-136
Glob ==
    /\ pc = "glob"
    /\ csv_files' = sorted_glob(fs)
    /\ IF Len(csv_files') = 0
       THEN /\ exit_code' = 3
            /\ pc' = "exited"
       ELSE /\ pc' = "loop"
            /\ UNCHANGED exit_code
    /\ idx' = 1
    /\ summary_rows' = <<>>
    /\ any_fail' = FALSE
    /\ UNCHANGED <<data_dir_exists, fs, out_dir, summary_csv, analyzed, side, last_report>>
    /\ UNCHANGED <<checkVars, statusVars>>

\* lines 137-153: one turn of the loop.  An exception that leaves analyze_file
\* is caught nowhere: the interpreter prints the traceback and exits with 1.
AnalyzeNext ==
    /\ pc = "loop"
    /\ idx <= Len(csv_files)
    /\ LET f == csv_files[idx]
           a == analyze_file(f, fs[f], side.promos, side.calendar)
       IN  /\ analyzed' = Append(analyzed, f)
           /\ out_dir' = IF a.written
                         THEN [k \in DOMAIN out_dir \cup {ArtifactOf(f)} |->
                                  IF k = ArtifactOf(f) THEN a.report ELSE out_dir[k]]
                         ELSE out_dir
           /\ IF a.outcome = "raised"
              THEN /\ exit_code' = 1
                   /\ pc' = "exited"
                   /\ UNCHANGED <<summary_rows, any_fail, idx, last_report>>
              ELSE /\ last_report' = a.report
                   /\ summary_rows' = Append(summary_rows, summary_row(a.report))
                   /\ any_fail' = (any_fail \/ a.report.blocking = "FAIL")
                   /\ idx' = idx + 1
                   /\ UNCHANGED <<exit_code, pc>>
    /\ UNCHANGED <<data_dir_exists, fs, csv_files, summary_csv, side>>
    /\ UNCHANGED <<checkVars, statusVars>>

\* lines 155-160
WriteSummary ==
    /\ pc = "loop"
    /\ idx > Len(csv_files)
    /\ summary_csv' = summary_rows
    /\ pc' = "summary_written"
    /\ UNCHANGED <<data_dir_exists, fs, csv_files, idx, summary_rows, any_fail,
                   out_dir, exit_code, analyzed, side, last_report>>
    /\ UNCHANGED <<checkVars, statusVars>>

\* lines 162-168
Exit ==
    /\ pc = "summary_written"
    /\ exit_code' = IF any_fail THEN 1 ELSE 0
    /\ pc' = "exited"
    /\ UNCHANGED <<data_dir_exists, fs, csv_files, idx, summary_rows, any_fail,
                   out_dir, summary_csv, analyzed, side, last_report>>
    /\ UNCHANGED <<checkVars, statusVars>>

-----------------------------------------------------------------------------
(* build_artifacts.py: compute_overall_status *)

\* astype(str).str.upper() of a cell of the summary table as read_csv gives
\* it: an empty cell is NaN, whose string is "nan"
UpperStr(cell) ==
    CASE cell = "" -> "NAN"
      [] cell = "True" -> "TRUE"
      [] cell = "False" -> "FALSE"
      [] OTHER -> cell

\* fillna(0).astype(float) > 0 for a count column
CountPositive(cell) == (IF cell = NaN THEN 0 ELSE cell) > 0

\* fillna(0).astype(float) > 0 for pct_backfilled, the fraction <<b, n>>
PctPositive(cell) == (IF cell = <<>> THEN 0 ELSE cell[1]) > 0

AmberFlag(sdf) ==
    \/ \E k \in DOMAIN sdf : CountPositive(sdf[k].duplicate_count)
    \/ \E k \in DOMAIN sdf : PctPositive(sdf[k].pct_backfilled)
    \/ \E k \in DOMAIN sdf : UpperStr(sdf[k].suspected_unit_price_mixup) = "TRUE"
    \/ \E k \in DOMAIN sdf : CountPositive(sdf[k].level_shift_groups)

compute_overall_status_amber_first(sdf) ==
    IF AmberFlag(sdf) THEN "amber"
    ELSE IF \E k \in DOMAIN sdf : UpperStr(sdf[k].blocking) = "FAIL" THEN "red"
    ELSE "green"

\* the summary table is the sequence of its rows; it has the five columns the
\* function looks for
compute_overall_status(sdf) ==
    IF \E k \in DOMAIN sdf : UpperStr(sdf[k].blocking) = "FAIL" THEN "red"
    ELSE IF AmberFlag(sdf) THEN "amber"
    ELSE "green"

-----------------------------------------------------------------------------
(* The files a batch is run on *)

MaxFiles == 2

CleanRows ==
    <<Row(0, 1, 1, 100, 10, 1, "Z"), Row(7, 1, 1, 100, 10, 8, "Z")>>

\* 38 weeks of one series: 8 weeks at 0, 22 at 5 and 8 at 10 units
LevelShiftRows ==
    [i \in 1..38 |->
        Row(7 * (i - 1), 1, 1, IF i <= 8 THEN 0 ELSE IF i <= 30 THEN 10 ELSE 20,
            10, 7 * (i - 1) + 1, "Z")]

Readable(t) == [readable |-> TRUE, table |-> t]

Unreadable == [readable |-> FALSE, table |-> FullTable(<<>>)]

FileMenu ==
    {Unreadable,
     \* all columns, weekly cadence, price 5, units 50, loaded the next day
     Readable(FullTable(CleanRows)),
     \* a header only
     Readable(FullTable(<<>>)),
     Readable(WithoutColumns(FullTable(CleanRows), {"currency", "inventory_on_hand"})),
     Readable(WithoutColumns(FullTable(CleanRows), {"sku_id"})),
     \* two rows with the same primary key
     Readable(FullTable(<<Row(0, 1, 1, 100, 10, 1, "Z"), Row(0, 1, 1, 90, 10, 1, "Z")>>)),
     \* price 1, units 11
     Readable(FullTable(<<Row(0, 1, 1, 22, 2, 1, "Z"), Row(7, 1, 1, 22, 2, 8, "Z")>>)),
     \* loaded 40 days after the week, unparseable cells
     Readable(FullTable(<<Row(0, 1, 1, 100, 10, 40, "Z"), Row(7, 1, 1, BAD, 10, BAD, "")>>)),
     \* one of five rows loaded 40 days after its week
     Readable(FullTable(<<Row(0, 1, 1, 100, 10, 40, "Z"), Row(7, 1, 1, 100, 10, 8, "Z"),
                          Row(14, 1, 1, 100, 10, 15, "Z"), Row(21, 1, 1, 100, 10, 22, "Z"),
                          Row(28, 1, 1, 100, 10, 29, "Z")>>)),
     \* two timezone notations
     Readable(FullTable(<<Row(0, 1, 1, 100, 10, 1, "Z"), Row(7, 1, 1, 100, 10, 8, "+05:30")>>)),
     Readable(FullTable(LevelShiftRows))}

SideTables ==
    {[promos |-> None, calendar |-> None], [promos |-> {56}, calendar |-> {0}]}

EmptyTable == [columns |-> <<>>, rows |-> <<>>]

ChecksIdle == df = EmptyTable /\ result = NoResult

StatusIdle == summary_df = <<>> /\ status = ""

RunnerIdle ==
    /\ data_dir_exists = FALSE
    /\ fs = <<>>
    /\ side = [promos |-> None, calendar |-> None]
    /\ csv_files = <<>>
    /\ idx = 1
    /\ summary_rows = <<>>
    /\ any_fail = FALSE
    /\ out_dir = <<>>
    /\ summary_csv = NoFile
    /\ exit_code = NoExit
    /\ analyzed = <<>>
    /\ last_report = NoReport

Init ==
    /\ data_dir_exists \in BOOLEAN
    /\ \E names \in SUBSET (1..MaxFiles) : fs \in [names -> FileMenu]
    /\ ~data_dir_exists => fs = <<>>
    /\ side \in SideTables
    /\ csv_files = <<>>
    /\ idx = 1
    /\ summary_rows = <<>>
    /\ any_fail = FALSE
    /\ out_dir = <<>>
    /\ summary_csv = NoFile
    /\ exit_code = NoExit
    /\ analyzed = <<>>
    /\ last_report = NoReport
    /\ pc = "start"
    /\ ChecksIdle
    /\ StatusIdle

Next == CheckDataDir \/ Glob \/ AnalyzeNext \/ WriteSummary \/ Exit

Spec == Init /\ [][Next]_vars

-----------------------------------------------------------------------------
(* Claims about the Runner and the Analyzer, under Spec *)

Last(s) == s[Len(s)]

\* the step of the loop that hands an unreadable file to analyze_file
LoadFailureStep ==
    /\ pc = "loop"
    /\ idx <= Len(csv_files)
    /\ ~fs[csv_files[idx]].readable
    /\ analyzed' = Append(analyzed, csv_files[idx])

\* C3: when loading a file fails, analyze_file returns a report with blocking
\* FAIL and the single reason read_error that holds none of the nine
\* diagnostic records, and the Runner goes on with the next file of the
\* batch: the process does not end, and no report, artifact or summary row of
\* another file changes.
C3_LoadFailureIsRecordedAndSkipped ==
    [][LoadFailureStep =>
          /\ pc' = "loop"
          /\ exit_code' = NoExit
          /\ idx' = idx + 1
          /\ last_report'.file = csv_files[idx]
          /\ last_report'.blocking = "FAIL"
          /\ last_report'.blocking_reasons = <<Tag("read_error", <<>>)>>
          /\ DOMAIN last_report' \cap CheckNames = {}
          /\ \A k \in DOMAIN out_dir :
                 k # ArtifactOf(csv_files[idx]) => k \in DOMAIN out_dir' /\ out_dir'[k] = out_dir[k]
          /\ Len(summary_rows') = Len(summary_rows) + 1
          /\ SubSeq(summary_rows', 1, Len(summary_rows)) = summary_rows
          /\ Last(summary_rows').blocking = "FAIL"]_vars

\* a load failure was recorded and the next file was analyzed after it
C3_Witness ==
    /\ Len(summary_rows) >= 2
    /\ ~fs[csv_files[1]].readable
    /\ summary_rows[1].blocking_reasons = <<Tag("read_error", <<>>)>>
    /\ fs[csv_files[2]].readable
    /\ ArtifactOf(csv_files[2]) \in DOMAIN out_dir

\* C4: every call of analyze_file produces one report and persists it as the
\* artifact of its file, whether or not the file could be loaded.
C4_EveryReportIsPersisted ==
    \A k \in DOMAIN summary_rows :
        /\ ArtifactOf(summary_rows[k].file) \in DOMAIN out_dir
        /\ out_dir[ArtifactOf(summary_rows[k].file)].file = summary_rows[k].file

\* C5: a batch ends with exit code 2 if the data directory does not exist; 3
\* if no file matches, and then no summary artifact is written; otherwise the
\* summary artifact is written and the code is 1 if an analyzed file has
\* blocking FAIL and 0 if none has.
C5_ExitCodeContract ==
    pc = "exited" =>
        IF ~data_dir_exists THEN exit_code = 2
        ELSE IF DOMAIN fs = {} THEN exit_code = 3 /\ summary_csv = NoFile
        ELSE /\ summary_csv # NoFile
             /\ exit_code = IF \E k \in DOMAIN summary_csv : summary_csv[k].blocking = "FAIL"
                            THEN 1 ELSE 0

\* C6: for every batch over an existing directory with at least one matching
\* file, whatever the files contain, the summary artifact is written with
\* exactly one row per matching file in ascending order of file name, and the
\* files were analyzed one at a time in that order.
C6_SummaryHasOneRowPerFileInOrder ==
    (pc = "exited" /\ data_dir_exists /\ DOMAIN fs # {}) =>
        /\ summary_csv # NoFile
        /\ Len(summary_csv) = Cardinality(DOMAIN fs)
        /\ \A k \in DOMAIN summary_csv : summary_csv[k].file = SortedSeq(DOMAIN fs)[k]
        /\ analyzed = SortedSeq(DOMAIN fs)

-----------------------------------------------------------------------------
(* check_schema on normalized tables, under SpecSchema *)

\* the headers of the raw files: the expected columns, a column whose name
\* carries a trailing blank and a column outside the schema
RawColumnUniverse == expected_schema_v1 \o <<"currency ", "promo_flag">>

HeaderOrders ==
    {RawColumnUniverse, Reverse(RawColumnUniverse),
     Rotate(RawColumnUniverse, 4), Reverse(Rotate(RawColumnUniverse, 4))}

Headers ==
    {SelectSeq(o, LAMBDA c : c \in keep) :
        o \in HeaderOrders, keep \in SUBSET Range(RawColumnUniverse)}

SchemaInit ==
    /\ pc = "schema_input"
    /\ df \in {normalize_df([columns |-> h, rows |-> CleanRows]) : h \in Headers}
    /\ result = NoResult
    /\ StatusIdle
    /\ RunnerIdle

RunSchema ==
    /\ pc = "schema_input"
    /\ result' = check_schema(df)
    /\ pc' = "schema_done"
    /\ UNCHANGED <<df, statusVars, runnerVars>>

SpecSchema == SchemaInit /\ [][RunSchema]_vars

PositionIn(s, x) == CHOOSE i \in DOMAIN s : s[i] = x

\* C9: schema_ok is true iff none of the 9 expected columns is missing,
\* whatever the column order and the extra columns; missing_columns lists the
\* absent expected columns in expected-schema order (without currency and
\* inventory_on_hand: [inventory_on_hand, currency]) and extra_columns lists
\* the columns outside the expected schema.
C9_SchemaCheck ==
    pc = "schema_done" =>
        LET expected == Range(expected_schema_v1)
            present == Range(df.columns)
            missing == result.missing_columns
            extra == result.extra_columns
        IN  /\ result.schema_ok = (expected \subseteq present)
            /\ Range(missing) = expected \ present
            /\ \A i, j \in DOMAIN missing :
                   i < j => PositionIn(expected_schema_v1, missing[i])
                            < PositionIn(expected_schema_v1, missing[j])
            /\ Range(extra) = present \ expected
            /\ Len(extra) = Cardinality({i \in DOMAIN df.columns : df.columns[i] \notin expected})
            /\ (expected \ present = {"currency", "inventory_on_hand"}
                   => missing = <<"inventory_on_hand", "currency">>)

\* all 9 expected columns in another order than the schema's, with extra
\* columns: schema_ok is true
C9_Witness ==
    /\ pc = "schema_done"
    /\ result.schema_ok
    /\ Len(result.extra_columns) >= 2
    /\ df.columns[1] = "promo_flag"
    /\ result.missing_columns = <<>>

-----------------------------------------------------------------------------
(* check_duplicates, under SpecDup *)

MaxDupRows == 11

\* rows over three primary keys: two share the week, two the series
DupRowDomain ==
    {Row(0, 1, 1, 100, 10, 1, "Z"), Row(0, 2, 1, 100, 10, 1, "Z"),
     Row(7, 1, 1, 100, 10, 8, "Z")}

DupInit ==
    /\ pc = "dup_input"
    /\ df = normalize_df(FullTable(<<>>))
    /\ result = NoResult
    /\ StatusIdle
    /\ RunnerIdle

DupAddRow ==
    /\ pc = "dup_input"
    /\ Len(df.rows) < MaxDupRows
    /\ \E row \in DupRowDomain :
           df' = [df EXCEPT !.rows = Append(@, NormalizeRow(df, row))]
    /\ UNCHANGED <<result, pc, statusVars, runnerVars>>

RunDuplicates ==
    /\ pc = "dup_input"
    /\ result' = check_duplicates(df)
    /\ pc' = "dup_done"
    /\ UNCHANGED <<df, statusVars, runnerVars>>

SpecDup == DupInit /\ [][DupAddRow \/ RunDuplicates]_vars

\* the number of rows of the table with the primary key of row i
KeyCount(i) ==
    Cardinality({j \in DOMAIN df.rows :
        <<df.rows[j].week_start, df.rows[j].sku_id, df.rows[j].store_id>>
        = <<df.rows[i].week_start, df.rows[i].sku_id, df.rows[i].store_id>>})

\* C8: with the three primary-key columns present, duplicate_count is the
\* number of rows whose key occurs in more than one row: 0 with an empty
\* sample when all keys are distinct, the row count when every key repeats;
\* the sample holds at most 10 rows, each a counted duplicate.
C8_DuplicateCount ==
    pc = "dup_done" =>
        LET repeated == {i \in DOMAIN df.rows : KeyCount(i) > 1}
        IN  /\ result.status = "ok"
            /\ result.duplicate_count = Cardinality(repeated)
            /\ (repeated = {} => result.duplicate_count = 0 /\ result.sample = <<>>)
            /\ (repeated = DOMAIN df.rows => result.duplicate_count = Len(df.rows))
            /\ Len(result.sample) <= 10
            /\ Len(result.sample) <= result.duplicate_count
            /\ \A k \in DOMAIN result.sample :
                   \E i \in repeated : df.rows[i] = result.sample[k]

\* more than 10 duplicate rows over two keys: the sample is cut at 10
C8_Witness ==
    /\ pc = "dup_done"
    /\ result.duplicate_count > 10
    /\ \E i, j \in DOMAIN df.rows : ~SamePk(df.rows[i], df.rows[j])
    /\ Len(result.sample) = 10

-----------------------------------------------------------------------------
(* detect_unit_price_mixup, under SpecMixup *)

MaxMixupRows == 10

\* (price, units) in halves: price 6 / units 1, price 6.5 / units 1,
\* price 5 / units 1, a null price, price 1 / units 11, price 6 / units 11
MixupRowTypes ==
    <<Row(0, 1, 1, 2, 12, 1, "Z"), Row(0, 1, 1, 2, 13, 1, "Z"),
      Row(0, 1, 1, 2, 10, 1, "Z"), Row(0, 1, 1, 2, BAD, 1, "Z"),
      Row(0, 1, 1, 22, 2, 1, "Z"), Row(0, 1, 1, 22, 12, 1, "Z")>>

MixupInit ==
    /\ pc = "mixup_input"
    /\ df = normalize_df(FullTable(<<>>))
    /\ result = NoResult
    /\ StatusIdle
    /\ RunnerIdle

\* the check reads medians and a share, which do not depend on the order of
\* the rows: the tables are drawn with their rows in the order of the types
MixupAddRow ==
    /\ pc = "mixup_input"
    /\ Len(df.rows) < MaxMixupRows
    /\ \E t \in DOMAIN MixupRowTypes :
           /\ \A i \in DOMAIN df.rows :
                  \E u \in 1..t : df.rows[i] = NormalizeRow(df, MixupRowTypes[u])
           /\ df' = [df EXCEPT !.rows = Append(@, NormalizeRow(df, MixupRowTypes[t]))]
    /\ UNCHANGED <<result, pc, statusVars, runnerVars>>

RunMixup ==
    /\ pc = "mixup_input"
    /\ result' = detect_unit_price_mixup(df)
    /\ pc' = "mixup_done"
    /\ UNCHANGED <<df, statusVars, runnerVars>>

SpecMixup == MixupInit /\ [][MixupAddRow \/ RunMixup]_vars

NonNullPrices == DropNa(Column(df.rows, "price"))

IntegerPrices == {i \in DOMAIN NonNullPrices : NonNullPrices[i] % 2 = 0}

\* median price < 1.5 and median units > 10 (medians are kept doubled, cells
\* are halves)
FirstHeuristic ==
    LET p == Median2(Column(df.rows, "price"))
        u == Median2(Column(df.rows, "units"))
    IN  p # NaN /\ u # NaN /\ p < 6 /\ u > 40

\* median price > 5 and median units < 2
FallbackMedians ==
    LET p == Median2(Column(df.rows, "price"))
        u == Median2(Column(df.rows, "units"))
    IN  p # NaN /\ u # NaN /\ p > 20 /\ u < 8

\* C10 as stated: suspected iff (median price < 1.5 and median units > 10) or
\* (at least 90% of the non-null prices are integer-valued and median price
\* > 5 and median units < 2).
C10_AtLeast90Percent ==
    pc = "mixup_done" =>
        (result.suspected_unit_price_mixup <=>
            \/ FirstHeuristic
            \/ /\ Len(NonNullPrices) > 0
               /\ 10 * Cardinality(IntegerPrices) >= 9 * Len(NonNullPrices)
               /\ FallbackMedians)

\* C10 as amended: suspected iff (median price < 1.5 and median units > 10)
\* or (more than 90% of the non-null prices are integer-valued and median
\* price > 5 and median units < 2); a table where exactly 90% of the prices
\* are integer-valued is not suspected by the fallback.
C10_MoreThan90Percent ==
    pc = "mixup_done" =>
        /\ result.status = "ok"
        /\ result.suspected_unit_price_mixup <=>
               \/ FirstHeuristic
               \/ /\ Len(NonNullPrices) > 0
                  /\ 10 * Cardinality(IntegerPrices) > 9 * Len(NonNullPrices)
                  /\ FallbackMedians

\* exactly 9 of 10 prices are integer-valued, median price 6, median units 1:
\* not suspected
C10_Witness ==
    /\ pc = "mixup_done"
    /\ Len(NonNullPrices) = 10
    /\ Cardinality(IntegerPrices) = 9
    /\ FallbackMedians
    /\ ~result.suspected_unit_price_mixup

-----------------------------------------------------------------------------
(* The blocking policy of analyze_file, under SpecPolicy *)

\* diagnostic records as the check functions return them
SchemaRecords ==
    {check_schema(normalize_df(FullTable(<<>>))),
     check_schema(normalize_df(WithoutColumns(FullTable(<<>>), {"currency", "inventory_on_hand"})))}

DuplicateRecords ==
    {[status |-> "pk_column_missing", duplicate_count |-> NaN, sample |-> <<>>]}
    \cup {[status |-> "ok", duplicate_count |-> n, sample |-> <<>>] : n \in {0, 2, 3}}

BackfillRecords ==
    {[status |-> "columns_missing"], [status |-> "no_load_ts_parsed"]}
    \cup {[status |-> "ok", count_checked |-> p[2], count_backfilled |-> p[1],
           pct_backfilled |-> p,
           hint |-> IF PctAbove(p, 5, 100) THEN "partial_backfill_likely" ELSE ""] :
             p \in {<<0, 5>>, <<1, 5>>, <<1, 4>>, <<5, 16>>, <<5, 5>>}}

MixupRecords ==
    {[status |-> "columns_missing"]}
    \cup {[status |-> "ok", price_median |-> 20, units_median |-> 200,
           ratio_units_to_price |-> <<200, 20>>, suspected_unit_price_mixup |-> b,
           hint |-> ""] : b \in BOOLEAN}

LevelShiftRecords ==
    {[status |-> "columns_missing"]}
    \cup {[status |-> "ok", groups_tested |-> 2, groups_with_level_shift |-> n,
           examples |-> <<>>] : n \in {0, 1, 2}}

TzRecords ==
    {[status |-> "no_load_ts_column"]}
    \cup {[status |-> "ok", tz_variants |-> <<>>, duplicate_pk_count |-> 0,
           suspicious |-> b, hint |-> <<b, FALSE>>] : b \in BOOLEAN}

PolicyInit ==
    /\ pc = "policy_input"
    /\ df = EmptyTable
    /\ \E sc \in SchemaRecords, du \in DuplicateRecords, ba \in BackfillRecords,
          mi \in MixupRecords, le \in LevelShiftRecords, tz \in TzRecords :
           result = [file |-> 1, schema |-> sc,
                     schema_versioning |-> detect_schema_versioning(normalize_df(FullTable(<<>>))),
                     duplicates |-> du,
                     continuity |-> [status |-> "no_week_start_column"],
                     level_shift |-> le, unit_price_mixup |-> mi,
                     partial_backfill |-> ba, tz_shift |-> tz,
                     seasonality |-> [status |-> "missing_columns"],
                     promo_calendar |-> [status |-> "no_data", hints |-> <<>>]]
    /\ StatusIdle
    /\ RunnerIdle

ApplyPolicy ==
    /\ pc = "policy_input"
    /\ result' = apply_blocking_policy(result)
    /\ pc' = "policy_done"
    /\ UNCHANGED <<df, statusVars, runnerVars>>

SpecPolicy == PolicyInit /\ [][ApplyPolicy]_vars

ReasonOrder ==
    <<"missing_schema_columns", "duplicates", "partial_backfill_pct",
      "unit_price_mixup_suspected", "level_shift_groups", "timezone_anomaly_or_dup_pk">>

HasField(rec, f) == f \in DOMAIN rec

\* the condition of each reason, read from the diagnostic records of a report
ReasonHolds(rep, tag) ==
    CASE tag = "missing_schema_columns" -> rep.schema.missing_columns # <<>>
      [] tag = "duplicates" ->
            rep.duplicates.duplicate_count # NaN /\ rep.duplicates.duplicate_count >= 1
      [] tag = "partial_backfill_pct" ->
            /\ HasField(rep.partial_backfill, "pct_backfilled")
            /\ 5 * rep.partial_backfill.count_backfilled > rep.partial_backfill.count_checked
      [] tag = "unit_price_mixup_suspected" ->
            /\ HasField(rep.unit_price_mixup, "suspected_unit_price_mixup")
            /\ rep.unit_price_mixup.suspected_unit_price_mixup
      [] tag = "level_shift_groups" ->
            /\ HasField(rep.level_shift, "groups_with_level_shift")
            /\ rep.level_shift.groups_with_level_shift >= 1
      [] tag = "timezone_anomaly_or_dup_pk" ->
            HasField(rep.tz_shift, "suspicious") /\ rep.tz_shift.suspicious

\* the number a reason carries: duplicates:<n>, level_shift_groups:<n>,
\* partial_backfill_pct:<v> with v, in thousandths, the nearest to the
\* fraction (of two nearest the even one)
ReasonArgOk(rep, tag, arg) ==
    CASE tag = "duplicates" -> arg = <<rep.duplicates.duplicate_count>>
      [] tag = "level_shift_groups" -> arg = <<rep.level_shift.groups_with_level_shift>>
      [] tag = "partial_backfill_pct" ->
            LET n == rep.partial_backfill.count_checked
                b == rep.partial_backfill.count_backfilled
                off == arg[1] * n - 1000 * b
            IN  /\ Len(arg) = 1
                /\ 2 * off <= n
                /\ 2 * off >= 0 - n
                /\ (2 * off = n \/ 2 * off = 0 - n) => arg[1] % 2 = 0
      [] OTHER -> arg = <<>>

-----------------------------------------------------------------------------
(* The nine check functions on tables that lack columns, under SpecChecks *)

DroppableColumns ==
    {"week_start", "sku_id", "store_id", "units", "price", "load_ts", "currency"}

CheckRows ==
    <<Row(0, 1, 1, 100, 10, 1, "Z"), Row(7, 1, 1, BAD, 10, 8, "Z"),
      Row(BAD, 1, 2, 100, BAD, BAD, "")>>

ChecksInit ==
    /\ pc = "checks_input"
    /\ df \in {normalize_df(WithoutColumns(FullTable(CheckRows), drop)) :
                  drop \in SUBSET DroppableColumns}
    /\ result = NoResult
    /\ StatusIdle
    /\ data_dir_exists = FALSE
    /\ fs = <<>>
    /\ side \in SideTables
    /\ csv_files = <<>>
    /\ idx = 1
    /\ summary_rows = <<>>
    /\ any_fail = FALSE
    /\ out_dir = <<>>
    /\ summary_csv = NoFile
    /\ exit_code = NoExit
    /\ analyzed = <<>>
    /\ last_report = NoReport

RunCheck ==
    /\ pc = "checks_input"
    /\ \E c \in CheckNames :
           result' = [check |-> c,
                      record |-> run_checks(1, df, side.promos, side.calendar)[c]]
    /\ pc' = "checks_done"
    /\ UNCHANGED <<df, statusVars, runnerVars>>

SpecChecks == ChecksInit /\ [][RunCheck]_vars

\* the columns a check reads
NeededColumns(c) ==
    CASE c = "duplicates" -> {"week_start", "sku_id", "store_id"}
      [] c = "continuity" -> {"week_start", "sku_id", "store_id"}
      [] c = "level_shift" -> {"units", "week_start", "sku_id", "store_id"}
      [] c = "unit_price_mixup" -> {"price", "units"}
      [] c = "partial_backfill" -> {"week_start", "load_ts"}
      [] c = "tz_shift" -> {"load_ts"}
      [] c = "seasonality" -> {"week_start", "units"}
      [] c = "promo_calendar" -> {"week_start", "units"}
      [] OTHER -> {}

SentinelStatuses ==
    {"pk_column_missing", "columns_missing", "no_week_start_column",
     "no_load_ts_column", "missing_columns", "no_data"}

\* C2: on every normalized table, whatever subset of the expected columns it
\* has, each check returns a diagnostic record and none raises; when a column
\* the check needs is absent the record carries a sentinel status.
C2_NoCheckRaises ==
    pc = "checks_done" =>
        /\ ~IsRaised(result.record)
        /\ ~(NeededColumns(result.check) \subseteq Range(df.columns))
               => result.record.status \in SentinelStatuses

-----------------------------------------------------------------------------
(* compute_overall_status, under SpecStatus *)

MaxSummaryRows == 2

SummaryRow(b, d, p, m, l) ==
    [file |-> 1, blocking |-> b, blocking_reasons |-> <<>>, duplicate_count |-> d,
     pct_backfilled |-> p, suspected_unit_price_mixup |-> m, level_shift_groups |-> l]

\* rows with each metric null or positive, and the rows with every metric 0
SummaryRowDomain ==
    {SummaryRow(b, d, p, m, l) :
        b \in {"FAIL", "PASS"}, d \in {NaN, 2}, p \in {<<>>, <<1, 5>>},
        m \in {"", "True"}, l \in {NaN, 1}}
    \cup {SummaryRow(b, 0, <<0, 2>>, "False", 0) : b \in {"FAIL", "PASS"}}

StatusInit ==
    /\ pc = "status_input"
    /\ summary_df = <<>>
    /\ status = ""
    /\ ChecksIdle
    /\ RunnerIdle

StatusAddRow ==
    /\ pc = "status_input"
    /\ Len(summary_df) < MaxSummaryRows
    /\ \E row \in SummaryRowDomain : summary_df' = Append(summary_df, row)
    /\ UNCHANGED <<status, pc, checkVars, runnerVars>>

RunStatus ==
    /\ pc = "status_input"
    /\ status' = compute_overall_status(summary_df)
    /\ pc' = "status_done"
    /\ UNCHANGED <<summary_df, checkVars, runnerVars>>

SpecStatus == StatusInit /\ [][StatusAddRow \/ RunStatus]_vars

\* a row triggers amber: duplicate_count > 0, pct_backfilled > 0,
\* suspected_unit_price_mixup true or level_shift_groups > 0, a null metric
\* not triggering
RowTriggersAmber(row) ==
    \/ row.duplicate_count # NaN /\ row.duplicate_count > 0
    \/ row.pct_backfilled # <<>> /\ row.pct_backfilled[1] > 0
    \/ row.suspected_unit_price_mixup = "True"
    \/ row.level_shift_groups # NaN /\ row.level_shift_groups > 0

\* C7: compute_overall_status returns red if any row has blocking FAIL;
\* otherwise amber if any row triggers amber; otherwise green.
C7_OverallStatus ==
    pc = "status_done" =>
        status = IF \E k \in DOMAIN summary_df : summary_df[k].blocking = "FAIL" THEN "red"
                 ELSE IF \E k \in DOMAIN summary_df : RowTriggersAmber(summary_df[k])
                 THEN "amber" ELSE "green"

\* a FAIL row beside a PASS row that triggers amber: red
C7_Witness ==
    /\ pc = "status_done"
    /\ Len(summary_df) = 2
    /\ summary_df[1].blocking = "PASS" /\ RowTriggersAmber(summary_df[1])
    /\ summary_df[2].blocking = "FAIL" /\ summary_df[2].duplicate_count = NaN
    /\ status = "red"

-----------------------------------------------------------------------------
(* analyze_file on files of integer prices and small units, under SpecScenario *)

MaxScenarioRows == 3

\* prices 5 and 6, units 0.5, 1 and 2 (cells are halves)
ScenarioPrices == {10, 12}

ScenarioUnits == {1, 2, 4}

\* row i of a file of one series: week i, loaded the next day
ScenarioRow(i, u, p) == Row(7 * (i - 1), 1, 1, u, p, 7 * (i - 1) + 1, "Z")

ScenarioInit ==
    /\ pc = "scenario_input"
    /\ df = FullTable(<<>>)
    /\ result = NoResult
    /\ StatusIdle
    /\ RunnerIdle

ScenarioAddRow ==
    /\ pc = "scenario_input"
    /\ Len(df.rows) < MaxScenarioRows
    /\ \E u \in ScenarioUnits, p \in ScenarioPrices :
           df' = [df EXCEPT !.rows = Append(@, ScenarioRow(Len(df.rows) + 1, u, p))]
    /\ UNCHANGED <<result, pc, statusVars, runnerVars>>

\* analyze_file on the file whose read_csv is df
RunAnalyze ==
    /\ pc = "scenario_input"
    /\ Len(df.rows) > 0
    /\ result' = analyze_file(1, Readable(df), None, None).report
    /\ pc' = "scenario_done"
    /\ UNCHANGED <<df, statusVars, runnerVars>>

SpecScenario == ScenarioInit /\ [][ScenarioAddRow \/ RunAnalyze]_vars

\* every price of the file is 5 and the median of its units is 1
AllPricesFiveUnitsMedianOne ==
    /\ Len(df.rows) > 0
    /\ \A i \in DOMAIN df.rows : df.rows[i].price = 10
    /\ Median2(Column(df.rows, "units")) = 4

HasReason(rep, tag) == \E k \in DOMAIN rep.blocking_reasons : rep.blocking_reasons[k].tag = tag

\* C11 as stated: a file in which every price is 5 and the median of units is
\* 1 is reported with suspected_unit_price_mixup true and blocking FAIL.
C11_PriceFiveIsSuspected ==
    (pc = "scenario_done" /\ AllPricesFiveUnitsMedianOne) =>
        /\ result.unit_price_mixup.suspected_unit_price_mixup
        /\ result.blocking = "FAIL"

\* C11 as amended: a file in which every price is 5 and the median of units is
\* 1 is reported with suspected_unit_price_mixup false (the fallback needs a
\* median price strictly above 5), without the reason
\* unit_price_mixup_suspected, and with blocking PASS unless another check
\* blocks; a file in which every price is 6 and the median of units is 1 is
\* reported suspected with blocking FAIL.
C11_PriceFiveIsNotSuspected ==
    pc = "scenario_done" =>
        /\ AllPricesFiveUnitsMedianOne =>
               /\ ~result.unit_price_mixup.suspected_unit_price_mixup
               /\ ~HasReason(result, "unit_price_mixup_suspected")
               /\ result.blocking = IF result.blocking_reasons = <<>> THEN "PASS" ELSE "FAIL"
        /\ (/\ \A i \in DOMAIN df.rows : df.rows[i].price = 12
            /\ Median2(Column(df.rows, "units")) = 4) =>
               /\ result.unit_price_mixup.suspected_unit_price_mixup
               /\ HasReason(result, "unit_price_mixup_suspected")
               /\ result.blocking = "FAIL"

\* three rows of price 5 with units 1, 1 and 2: not suspected, blocking PASS
C11_Witness ==
    /\ pc = "scenario_done"
    /\ Len(df.rows) = 3
    /\ AllPricesFiveUnitsMedianOne
    /\ ~result.unit_price_mixup.suspected_unit_price_mixup
    /\ result.blocking = "PASS"

-----------------------------------------------------------------------------
(* detect_level_shift on permuted tables, under SpecShift *)

\* how the week_start cells of the long series are filled: one week per row,
\* one week for every row, no parseable week, or one week per pair of rows
WeekPatterns == {"distinct", "tied", "null", "tied_pairs"}

WeekOf(pattern, i) ==
    CASE pattern = "distinct" -> 7 * (i - 1)
      [] pattern = "tied" -> 0
      [] pattern = "null" -> BAD
      [] pattern = "tied_pairs" -> 7 * ((i - 1) \div 2)

\* the 38 rows of LevelShiftRows as series (1, 1) with the given weeks, then
\* two rows of series (2, 1); load_ts holds the position of the row in the file
ShiftRows(pattern) ==
    [i \in 1..40 |->
        IF i <= 38
        THEN Row(WeekOf(pattern, i), 1, 1, LevelShiftRows[i].units, 10, i, "Z")
        ELSE Row(7 * (i - 39), 2, 1, 100, 10, i, "Z")]

ShiftInit ==
    /\ pc = "shift_input"
    /\ df \in {normalize_df(FullTable(ShiftRows(w))) : w \in WeekPatterns}
    /\ result = NoResult
    /\ StatusIdle
    /\ RunnerIdle

\* the same rows in another order: the first row moved to the end
ShiftRotate ==
    /\ pc = "shift_input"
    /\ df' = [df EXCEPT !.rows = Tuple(Rotate(@, 1))]
    /\ UNCHANGED <<result, pc, statusVars, runnerVars>>

\* the same rows in reverse order
ShiftReverse ==
    /\ pc = "shift_input"
    /\ df' = [df EXCEPT !.rows = Tuple(Reverse(@))]
    /\ UNCHANGED <<result, pc, statusVars, runnerVars>>

RunLevelShift ==
    /\ pc = "shift_input"
    /\ result' = detect_level_shift(df)
    /\ pc' = "shift_done"
    /\ UNCHANGED <<df, statusVars, runnerVars>>

SpecShift == ShiftInit /\ [][ShiftRotate \/ ShiftReverse \/ RunLevelShift]_vars

\* the rows of the table in the order of the file they were drawn from
InFileOrder(rows) ==
    Tuple([k \in 1..Len(rows) |-> rows[CHOOSE i \in DOMAIN rows : rows[i].load_ts = k]])

\* C12: detect_level_shift returns the same groups_tested,
\* groups_with_level_shift and flagged groups for every permutation of the
\* rows within a (sku_id, store_id) group, also when rows of the group share
\* a week_start or have a null week_start.
C12_PermutationInvariant ==
    pc = "shift_done" =>
        LET original == detect_level_shift([df EXCEPT !.rows = InFileOrder(@)])
        IN  /\ result.groups_tested = original.groups_tested
            /\ result.groups_with_level_shift = original.groups_with_level_shift
            /\ result.examples = original.examples

-----------------------------------------------------------------------------
(* check_date_continuity on tables of several series, under SpecContinuity *)

MaxGroups == 11

\* the week_start cells and the store_id of one series: a weekly cadence, one
\* irregular step, two irregular steps, two irregular steps among unsorted
\* rows with an unparseable and a repeated week, one parseable week, and two
\* irregular steps in rows whose store_id is empty
ContinuityPatterns ==
    <<[weeks |-> <<0, 7, 14>>, store |-> 1],
      [weeks |-> <<0, 7, 15>>, store |-> 1],
      [weeks |-> <<0, 3, 9>>, store |-> 1],
      [weeks |-> <<9, BAD, 0, 3, 3>>, store |-> 1],
      [weeks |-> <<BAD, 0>>, store |-> 1],
      [weeks |-> <<0, 3, 9>>, store |-> NaN]>>

\* the rows of series g filled after pattern t
PatternRows(g, t) ==
    LET pat == ContinuityPatterns[t]
    IN  [i \in DOMAIN pat.weeks |-> Row(pat.weeks[i], g, pat.store, 100, 10, 1, "Z")]

ContinuityInit ==
    /\ pc = "continuity_input"
    /\ df = normalize_df(FullTable(<<>>))
    /\ result = NoResult
    /\ StatusIdle
    /\ RunnerIdle

\* the series of the table: they are numbered 1, 2, ... by sku_id
SeriesCount(rows) == Cardinality({rows[i].sku_id : i \in DOMAIN rows})

\* the result does not depend on the order of the series: the tables are
\* drawn with their series in the order of the patterns
ContinuityAddGroup ==
    /\ pc = "continuity_input"
    /\ SeriesCount(df.rows) < MaxGroups
    /\ \E t \in DOMAIN ContinuityPatterns :
           LET g == SeriesCount(df.rows)
               added == normalize_df(FullTable(PatternRows(g + 1, t))).rows
           IN  /\ g > 0 =>
                      \E u \in 1..t :
                          SelectSeq(df.rows, LAMBDA r : r.sku_id = g)
                          = normalize_df(FullTable(PatternRows(g, u))).rows
               /\ df' = [df EXCEPT !.rows = @ \o added]
    /\ UNCHANGED <<result, pc, statusVars, runnerVars>>

RunContinuity ==
    /\ pc = "continuity_input"
    /\ result' = check_date_continuity(df)
    /\ pc' = "continuity_done"
    /\ UNCHANGED <<df, statusVars, runnerVars>>

SpecContinuity == ContinuityInit /\ [][ContinuityAddGroup \/ RunContinuity]_vars

\* the (sku_id, store_id) groups of the table
SeriesKeys ==
    {<<df.rows[i].sku_id, df.rows[i].store_id>> :
        i \in {j \in DOMAIN df.rows : df.rows[j].sku_id # NaN /\ df.rows[j].store_id # NaN}}

\* the distinct non-null week_start values of a group
DistinctWeeks(k) ==
    {df.rows[i].week_start :
        i \in {j \in DOMAIN df.rows : /\ df.rows[j].sku_id = k[1]
                                      /\ df.rows[j].store_id = k[2]
                                      /\ df.rows[j].week_start # NaN}}

\* the day-differences between consecutive distinct weeks that are neither 0
\* nor 7, each named by the later week
IrregularSteps(k) ==
    {w \in DistinctWeeks(k) :
        /\ \E v \in DistinctWeeks(k) : v < w
        /\ LET prev == CHOOSE v \in DistinctWeeks(k) :
                           v < w /\ \A x \in DistinctWeeks(k) : x < w => x <= v
           IN  w - prev # 0 /\ w - prev # 7}

SeriesWithGaps == {k \in SeriesKeys : Cardinality(IrregularSteps(k)) > 1}

\* C13: a group is counted in groups_with_gaps iff more than 1 of the
\* day-differences between its consecutive distinct non-null weeks is neither
\* 0 nor 7; a group with fewer than 2 distinct weeks is never counted;
\* groups_with_gaps <= groups_total and there are at most 10 gap examples.
C13_GapsCounted ==
    pc = "continuity_done" =>
        /\ result.status = "ok"
        /\ result.groups_total = Cardinality(SeriesKeys)
        /\ result.groups_with_gaps = Cardinality(SeriesWithGaps)
        /\ \A k \in SeriesKeys : Cardinality(DistinctWeeks(k)) < 2 => k \notin SeriesWithGaps
        /\ result.groups_with_gaps <= result.groups_total
        /\ Len(result.gap_examples) <= 10
        /\ Len(result.gap_examples) <= result.groups_with_gaps
        /\ \A e \in DOMAIN result.gap_examples :
               <<result.gap_examples[e].sku_id, result.gap_examples[e].store_id>> \in SeriesWithGaps

\* 11 groups with gaps beside none without: the examples are cut at 10
C13_Witness ==
    /\ pc = "continuity_done"
    /\ result.groups_with_gaps = 11
    /\ Len(result.gap_examples) = 10

-----------------------------------------------------------------------------
(* detect_partial_backfill and the backfill reason, under SpecBackfill *)

MaxBackfillRows == 20

\* rows of week 0: loaded the next day, 30 days and 5 hours later, 31 days
\* later, with an unparseable load_ts, and a row with an unparseable week
BackfillRowTypes ==
    <<Row(0, 1, 1, 100, 10, 1, "Z"),
      AtHour(Row(0, 1, 1, 100, 10, 30, "Z"), 5),
      Row(0, 1, 1, 100, 10, 31, "Z"),
      Row(0, 1, 1, 100, 10, BAD, ""),
      Row(BAD, 1, 1, 100, 10, 40, "Z")>>

BackfillInit ==
    /\ pc = "backfill_input"
    /\ df = FullTable(<<>>)
    /\ result = NoResult
    /\ StatusIdle
    /\ RunnerIdle

\* the check reads two counts, which do not depend on the order of the rows:
\* the files are drawn with their rows in the order of the types
BackfillAddRow ==
    /\ pc = "backfill_input"
    /\ Len(df.rows) < MaxBackfillRows
    /\ \E t \in DOMAIN BackfillRowTypes :
           /\ \A i \in DOMAIN df.rows : \E u \in 1..t : df.rows[i] = BackfillRowTypes[u]
           /\ df' = [df EXCEPT !.rows = Append(@, BackfillRowTypes[t])]
    /\ UNCHANGED <<result, pc, statusVars, runnerVars>>

\* analyze_file on the file whose read_csv is df
RunBackfill ==
    /\ pc = "backfill_input"
    /\ result' = analyze_file(1, Readable(df), None, None).report
    /\ pc' = "backfill_done"
    /\ UNCHANGED <<df, statusVars, runnerVars>>

SpecBackfill == BackfillInit /\ [][BackfillAddRow \/ RunBackfill]_vars

\* the rows of the file where both load_ts and week_start parse
ValidRows == {i \in DOMAIN df.rows : df.rows[i].load_ts # BAD /\ df.rows[i].week_start # BAD}

\* the hours between week_start and the load timestamp of row i
LoadLagHours(i) == 24 * (df.rows[i].load_ts - df.rows[i].week_start) + df.rows[i].load_hour

\* what the record and the reasons must be for a given set of late rows
BackfillRecordIs(late) ==
    IF ValidRows = {}
    THEN /\ result.partial_backfill.status = "no_load_ts_parsed"
         /\ "pct_backfilled" \notin DOMAIN result.partial_backfill
         /\ ~HasReason(result, "partial_backfill_pct")
    ELSE /\ result.partial_backfill.status = "ok"
         /\ result.partial_backfill.pct_backfilled = <<Cardinality(late), Cardinality(ValidRows)>>
         /\ (result.partial_backfill.hint # "") <=>
                (100 * Cardinality(late) > 5 * Cardinality(ValidRows))

-----------------------------------------------------------------------------
(* analyze_file on files with unparseable cells, under SpecNulls *)

MaxNullRows == 3

\* rows of one series whose week_start and units parse or do not
NullRowDomain ==
    {Row(w, 1, 1, u, 10, 1, "Z") : w \in {0, 7, BAD}, u \in {100, BAD}}

NullsInit ==
    /\ pc = "nulls_input"
    /\ df = FullTable(<<>>)
    /\ result = NoResult
    /\ StatusIdle
    /\ RunnerIdle

NullsAddRow ==
    /\ pc = "nulls_input"
    /\ Len(df.rows) < MaxNullRows
    /\ \E row \in NullRowDomain : df' = [df EXCEPT !.rows = Append(@, row)]
    /\ UNCHANGED <<result, pc, statusVars, runnerVars>>

\* analyze_file on the file whose read_csv is df
RunNulls ==
    /\ pc = "nulls_input"
    /\ Len(df.rows) > 0
    /\ result' = analyze_file(1, Readable(df), None, None).report
    /\ pc' = "nulls_done"
    /\ UNCHANGED <<df, statusVars, runnerVars>>

SpecNulls == NullsInit /\ [][NullsAddRow \/ RunNulls]_vars

\* the rows whose week_start parsed and whose primary key is the key of
\* another such row
DuplicatesAmongParsed ==
    {i \in DOMAIN df.rows :
        /\ df.rows[i].week_start # BAD
        /\ \E j \in DOMAIN df.rows :
               /\ j # i
               /\ df.rows[j].week_start = df.rows[i].week_start
               /\ df.rows[j].sku_id = df.rows[i].sku_id
               /\ df.rows[j].store_id = df.rows[i].store_id}

\* the weeks that have an observation: a row with that week and parsed units
ObservedWeeks ==
    {df.rows[i].week_start :
        i \in {j \in DOMAIN df.rows : df.rows[j].week_start # BAD /\ df.rows[j].units # BAD}}

\* C15: a value coerced to null is excluded from every computation and is
\* neither a zero nor a match for another null: rows with a null week_start
\* are not duplicates of one another for check_duplicates and
\* detect_timezone_shift, and null units add no observation to the level-shift
\* windows, the medians and the weekly sums of the seasonality check.
C15_NullsAreExcluded ==
    pc = "nulls_done" =>
        LET parsedUnits == SelectSeq(Column(df.rows, "units"), LAMBDA u : u # BAD)
        IN  /\ result.duplicates.duplicate_count = Cardinality(DuplicatesAmongParsed)
            /\ result.tz_shift.duplicate_pk_count = Cardinality(DuplicatesAmongParsed)
            /\ result.unit_price_mixup.units_median = Median2(parsedUnits)
            /\ result.level_shift.groups_tested
                   = (IF Len(parsedUnits) >= 2 * window THEN 1 ELSE 0)
            /\ result.seasonality.n_weeks = Cardinality(ObservedWeeks)

-----------------------------------------------------------------------------
(* The overall status of the summary a batch wrote, under SpecPipeline *)

\* build_artifacts.py reads the summary artifact of a finished batch and
\* computes its status
BuildArtifacts ==
    /\ pc = "exited"
    /\ summary_csv # NoFile
    /\ summary_df' = summary_csv
    /\ status' = compute_overall_status(summary_csv)
    /\ pc' = "artifacts_built"
    /\ UNCHANGED <<checkVars, runnerVars>>

SpecPipeline == Init /\ [][Next \/ BuildArtifacts]_vars

\* a summary row with an amber trigger other than pct_backfilled
OtherAmberTrigger(row) ==
    \/ row.duplicate_count # NaN /\ row.duplicate_count > 0
    \/ row.suspected_unit_price_mixup = "True"
    \/ row.level_shift_groups # NaN /\ row.level_shift_groups > 0

-----------------------------------------------------------------------------
(* The reports of analyze_file over headers and rows, under SpecReports *)

\* the columns a file may lack, and a column outside the schema it may have
ReportColumns == {"week_start", "sku_id", "store_id", "load_ts", "currency", "promo_flag"}

ReportHeaders ==
    {SelectSeq(expected_schema_v1 \o <<"promo_flag">>,
               LAMBDA c : c \notin ReportColumns \/ c \in keep) : keep \in SUBSET ReportColumns}

\* the rows of the files: none, two clean weeks, a repeated primary key beside
\* a clean row, two rows of one series with unparseable weeks, and two
\* timezone notations
ReportRowSets ==
    {<<>>,
     CleanRows,
     <<Row(0, 1, 1, 100, 10, 1, "Z"), Row(0, 1, 1, 90, 10, 2, "Z"), Row(7, 1, 1, 100, 10, 8, "Z")>>,
     <<Row(BAD, 1, 1, 100, 10, 1, "Z"), Row(BAD, 1, 1, 100, 10, 1, "Z")>>,
     <<Row(0, 1, 1, 100, 10, 1, "Z"), Row(7, 1, 1, 100, 10, 8, "+05:30")>>}

ReportsInit ==
    /\ pc = "report_input"
    /\ df \in {[columns |-> h, rows |-> rows] : h \in ReportHeaders, rows \in ReportRowSets}
    /\ result = NoResult
    /\ StatusIdle
    /\ RunnerIdle

\* analyze_file on the file whose read_csv is df: the report it returns, or
\* the exception that leaves it
RunReport ==
    /\ pc = "report_input"
    /\ LET a == analyze_file(1, Readable(df), None, None)
       IN  IF a.outcome = "returned"
           THEN result' = a.report /\ pc' = "report_done"
           ELSE result' = Raised("KeyError") /\ pc' = "report_raised"
    /\ UNCHANGED <<df, statusVars, runnerVars>>

\* detect_schema_versioning called on the table as read, not normalized
RunVersioningRaw ==
    /\ pc = "report_input"
    /\ result' = detect_schema_versioning(df)
    /\ pc' = "raw_versioning_done"
    /\ UNCHANGED <<df, statusVars, runnerVars>>

SpecReports == ReportsInit /\ [][RunReport \/ RunVersioningRaw]_vars

C18_SchemaAlwaysChanged ==
    /\ pc = "report_done" =>
           /\ result.schema_versioning.schema_changed
           /\ "load_ts" \in Range(df.columns) =>
                  /\ "load_ts_parsed" \in Range(result.schema.extra_columns)
                  /\ "load_ts_parsed" \in Range(result.schema_versioning.extra)
           /\ "load_ts" \notin Range(df.columns) =>
                  /\ "load_ts" \in Range(result.schema.missing_columns)
                  /\ "load_ts" \in Range(result.schema_versioning.missing)
    /\ pc = "raw_versioning_done" =>
           (~result.schema_changed <=> Range(df.columns) = Range(expected_schema_v1))

\* a file with exactly the 9 expected columns: no column is missing, yet the
\* schema is reported as changed because of load_ts_parsed
C18_Witness ==
    /\ pc = "report_done"
    /\ df.columns = expected_schema_v1
    /\ result.schema.schema_ok
    /\ result.schema_versioning.schema_changed
    /\ result.schema_versioning.extra = <<"load_ts_parsed">>
    /\ result.blocking = "PASS"

=============================================================================
